---- MODULE Spec2Model ----
(***************************************************************************)
(* A model of synapfuse_core.py: the conversation memory (MemoryManager    *)
(* and PersistentMemoryManager with its JSON file), the MetricsTracker,    *)
(* speak, the password gate and the two command loops (run_cli and         *)
(* run_cli_persistent).                                                    *)
(*                                                                         *)
(* Five specifications share the variables:                                *)
(*   SpecStore    the store's methods called directly, with any arguments  *)
(*   SpecLoad     a PersistentMemoryManager constructed on any file        *)
(*   SpecMetrics  the tracker's methods called directly                    *)
(*   SpecSpeak    speak called directly, in any configuration              *)
(*   Spec         a session of run_cli or run_cli_persistent               *)
(***************************************************************************)
EXTENDS Integers, Sequences, FiniteSets, TLC

VARIABLES
    pc,             \* where the process is: "new" | "api" | "metrics" (direct calls),
                    \* "auth" | "start" | "running" | "exited" | "crashed" (a session)
    persistent,     \* TRUE: PersistentMemoryManager / run_cli_persistent
    attempts,       \* require_password: prompts answered so far
    exit_status,    \* process exit status once the process has ended, else -1
    raised,         \* the exception that left the last call (or ended the process)
    entries,        \* MemoryManager._entries
    file,           \* the content of the file at PersistentMemoryManager.filepath
    saved,          \* how the last _save_entries call ended: "none" | "ok" | "failed"
    now,            \* the UTC clock read by datetime.datetime.utcnow()
    recalled,       \* what the last call or line returned or listed from recall()
    lastOp,         \* the last call or input line processed, with its argument
    latencies,      \* MetricsTracker.response_latencies
    request_count,  \* MetricsTracker.request_count
    error_count,    \* MetricsTracker.error_count
    metricsOut,     \* what the last call or line got from get_metrics()
    short_mode,     \* the loop's short_mode flag
    display,        \* what the last line printed after "Assistant> "
    tts_env,        \* speak's configuration: ELEVENLABS_API_KEY set, requests imported
    output_mp3,     \* the file output.mp3 in the working directory
    spoke           \* the last call of speak: what it met and what it printed

vars == <<pc, persistent, attempts, exit_status, raised, entries, file, saved, now,
          recalled, lastOp, latencies, request_count, error_count, metricsOut,
          short_mode, display, tts_env, output_mp3, spoke>>

storeVars == <<entries, file, saved, now, recalled>>
metricsVars == <<latencies, request_count, error_count, metricsOut>>
gateVars == <<attempts, exit_status>>
speakEnv == <<tts_env, output_mp3>>
speakVars == <<tts_env, output_mp3, spoke>>

----------------------------------------------------------------------------
(* Bounds of the model *)

MaxEntries == 2     \* entries a store holds at most
MaxClock == 1       \* the clock's seconds run over 0..MaxClock
MaxItems == 2       \* elements of a JSON array found in the file at start
MaxSamples == 4     \* samples a MetricsTracker holds at most in SpecMetrics
MaxTurns == 2       \* samples a session records at most

(* Program constants *)

MaxAttempts == 3    \* require_password: range(3)
DefaultRecall == 5  \* recall(n=5); "/recall" without a usable argument
max_len == 60       \* short mode: response[:max_len] + "..."

----------------------------------------------------------------------------
(* Python helpers *)

Min(a, b) == IF a < b THEN a ELSE b

\* s[start:] as Python slices a list: a negative start counts from the end,
\* and the result is clamped to the list.
SliceFrom(s, start) ==
    LET n == Len(s)
        st0 == IF start < 0 THEN start + n ELSE start
        st == IF st0 < 0 THEN 0 ELSE IF st0 > n THEN n ELSE st0
    IN  [i \in 1..(n - st) |-> s[st + i]]

\* s[::-1]
Reversed(s) == [i \in 1..Len(s) |-> s[Len(s) + 1 - i]]

\* s.endswith(c) for a one-character c; strings are sequences of characters
EndsWith(s, c) == Len(s) > 0 /\ s[Len(s)] = c

\* s[:-1]
DropLast(s) == [i \in 1..(Len(s) - 1) |-> s[i]]

----------------------------------------------------------------------------
(* datetime and its ISO-8601 text.  A datetime is [sec, us]: the date and  *)
(* time down to the second (one digit stands for "YYYY-MM-DDTHH:MM:SS")    *)
(* and the microsecond field.  An ISO text is a sequence of characters.    *)

Digits == 0..9
Datetimes == [sec : 0..MaxClock, us : 0..1]

IsDigit(c) == \E d \in Digits : ToString(d) = c
DigitOf(c) == CHOOSE d \in Digits : ToString(d) = c

\* datetime.isoformat(): the microseconds are printed only when they are not 0
isoformatDropsMicros(ts) == <<ToString(ts.sec)>>
isoformat(ts) ==
    <<ToString(ts.sec)>> \o (IF ts.us # 0 THEN <<".", ToString(ts.us)>> ELSE <<>>)

\* datetime.fromisoformat(s): [ok, value]; ok = FALSE is ValueError
fromisoformat(s) ==
    IF Len(s) = 1 /\ IsDigit(s[1])
    THEN [ok |-> TRUE, value |-> [sec |-> DigitOf(s[1]), us |-> 0]]
    ELSE IF Len(s) = 3 /\ IsDigit(s[1]) /\ s[2] = "." /\ IsDigit(s[3])
    THEN [ok |-> TRUE, value |-> [sec |-> DigitOf(s[1]), us |-> DigitOf(s[3])]]
    ELSE [ok |-> FALSE, value |-> [sec |-> 0, us |-> 0]]

\* MemoryEntry.to_dict
to_dict(entry) ==
    [text |-> entry.text, timestamp |-> Append(isoformat(entry.timestamp), "Z")]

\* datetime.datetime.utcnow() when the clock shows second `clock`
utcnow(clock) == [sec |-> clock, us |-> 1]

----------------------------------------------------------------------------
(* The file at PersistentMemoryManager.filepath.                           *)
(*   kind   "missing"     os.path.exists is False                          *)
(*          "unreadable"  open() raises OSError                            *)
(*          "badjson"     json.load raises JSONDecodeError                 *)
(*          "json"        json.load returns a value                        *)
(*   top    the JSON value: an "array" of items, a "number" or an "object" *)
(*          (with at least one key)                                        *)
(*   items  the array's elements.  An element is an object (obj) with      *)
(*          optional "text" and "timestamp" members, the timestamp a       *)
(*          string ("str") or a number ("num"); or it is no object.        *)

Texts == {"a", "b"}

NoFile == [kind |-> "missing", top |-> "array", items |-> <<>>]
Unreadable == [kind |-> "unreadable", top |-> "array", items |-> <<>>]
BadJson == [kind |-> "badjson", top |-> "array", items |-> <<>>]
JsonNumber == [kind |-> "json", top |-> "number", items |-> <<>>]
JsonObject == [kind |-> "json", top |-> "object", items |-> <<>>]
JsonArray(items) == [kind |-> "json", top |-> "array", items |-> items]

ItemOf(d) == [obj |-> TRUE, hasText |-> TRUE, text |-> d.text,
              tsKind |-> "str", ts |-> d.timestamp]

\* json.dump([entry.to_dict() for entry in self._entries], f)
Dump(es) == JsonArray([i \in 1..Len(es) |-> ItemOf(to_dict(es[i]))])

\* _load_entries, the loop over the loaded value: [raised, entries]
RECURSIVE LoadItems(_, _, _)
LoadItems(items, acc, clock) ==
    IF items = <<>> THEN [raised |-> "none", entries |-> acc]
    ELSE LET it == Head(items) IN
         IF ~it.obj \/ it.tsKind = "num"
         THEN \* entry_data.get / ts_str.endswith on a value without it
              [raised |-> "AttributeError", entries |-> acc]
         ELSE LET ts_str == IF it.tsKind = "absent" THEN <<>> ELSE it.ts
                  ts_clean == IF EndsWith(ts_str, "Z") THEN DropLast(ts_str) ELSE ts_str
                  parsed == fromisoformat(ts_clean)
                  timestamp == IF parsed.ok THEN parsed.value ELSE utcnow(clock)
                  text == IF it.hasText THEN it.text ELSE ""
              IN  LoadItems(Tail(items),
                            Append(acc, [text |-> text, timestamp |-> timestamp]),
                            clock)

\* PersistentMemoryManager._load_entries on an empty _entries: [raised, entries]
_load_entries(f, clock) ==
    CASE f.kind = "missing" -> [raised |-> "none", entries |-> <<>>]
      [] f.kind \in {"unreadable", "badjson"} ->
            \* except (json.JSONDecodeError, OSError): self._entries = []
            [raised |-> "none", entries |-> <<>>]
      [] f.kind = "json" /\ f.top = "number" ->
            \* for entry_data in data
            [raised |-> "TypeError", entries |-> <<>>]
      [] f.kind = "json" /\ f.top = "object" ->
            \* iterating a dict yields its keys, and a str has no get
            [raised |-> "AttributeError", entries |-> <<>>]
      [] OTHER -> LoadItems(f.items, <<>>, clock)

\* PersistentMemoryManager._save_entries: the file after the call.  open() may
\* raise OSError (the file is as before); the write may raise it after open()
\* has truncated the file.
SaveOutcomes == {"ok", "open_failed", "write_failed"}
_save_entriesAppendMode(es, f, outcome) ==
    CASE outcome = "ok" -> IF f.kind = "missing" THEN Dump(es) ELSE BadJson
      [] outcome = "open_failed" -> f
      [] OTHER -> BadJson
_save_entries(es, f, outcome) ==
    CASE outcome = "ok" -> Dump(es)
      [] outcome = "open_failed" -> f
      [] OTHER -> BadJson

\* MemoryManager.add_entry; tsarg is the timestamp argument, given or None
NoTimestamp == [given |-> FALSE, value |-> [sec |-> 0, us |-> 0]]
TimestampArgs == {NoTimestamp, [given |-> TRUE, value |-> [sec |-> 0, us |-> 0]]}
add_entryAtFront(es, text, tsarg, clock) ==
    <<[text |-> text,
       timestamp |-> IF tsarg.given THEN tsarg.value ELSE utcnow(clock)]>> \o es
add_entry(es, text, tsarg, clock) ==
    Append(es, [text |-> text,
                timestamp |-> IF tsarg.given THEN tsarg.value ELSE utcnow(clock)])

\* MemoryManager.recall
recallOldestFirst(es, n) ==
    LET recent == SliceFrom(es, -n) IN [i \in 1..Len(recent) |-> to_dict(recent[i])]
recall(es, n) ==
    LET recent == SliceFrom(es, -n)
    IN  Reversed([i \in 1..Len(recent) |-> to_dict(recent[i])])

\* MemoryManager.clear
clearKeepsAll(es) == es
clear(es) == <<>>

\* MemoryManager() or PersistentMemoryManager(filepath): [raised, entries]
NewStore(p, f, clock) ==
    IF p THEN _load_entries(f, clock) ELSE [raised |-> "none", entries |-> <<>>]

----------------------------------------------------------------------------
(* MetricsTracker.  A tracker is [latencies, request_count, error_count].  *)
(* A latency is a whole number of milliseconds; the model records even     *)
(* ones, so that the mean of two of them is a whole number too.            *)

NewTracker == [latencies |-> <<>>, request_count |-> 0, error_count |-> 0]

\* MetricsTracker.record_response
record_responseForgetsFlag(m, latency, error) ==
    [latencies |-> Append(m.latencies, latency),
     request_count |-> m.request_count + 1,
     error_count |-> m.error_count]
record_responseErrorsApart(m, latency, error) ==
    IF error
    THEN [latencies |-> m.latencies,
          request_count |-> m.request_count,
          error_count |-> m.error_count + 1]
    ELSE [latencies |-> Append(m.latencies, latency),
          request_count |-> m.request_count + 1,
          error_count |-> m.error_count]
record_response(m, latency, error) ==
    [latencies |-> Append(m.latencies, latency),
     request_count |-> m.request_count + 1,
     error_count |-> IF error THEN m.error_count + 1 ELSE m.error_count]

\* sorted(s): a stable insertion sort, smallest first
Insert(s, x) ==
    LET k == Cardinality({i \in 1..Len(s) : s[i] <= x})
    IN  SubSeq(s, 1, k) \o <<x>> \o SubSeq(s, k + 1, Len(s))
RECURSIVE sorted(_)
sorted(s) == IF s = <<>> THEN <<>> ELSE Insert(sorted(DropLast(s)), s[Len(s)])

\* MetricsTracker.get_metrics; mid counts from 0 as in the source
get_metricsUnsorted(m) ==
    IF m.latencies = <<>> THEN [p50 |-> 0, requests |-> 0, errors |-> 0]
    ELSE LET mid == Len(m.latencies) \div 2
         IN  [p50 |-> IF Len(m.latencies) % 2 = 1
                      THEN m.latencies[mid + 1]
                      ELSE (m.latencies[mid] + m.latencies[mid + 1]) \div 2,
              requests |-> m.request_count,
              errors |-> m.error_count]
get_metrics(m) ==
    IF m.latencies = <<>> THEN [p50 |-> 0, requests |-> 0, errors |-> 0]
    ELSE LET sorted_latencies == sorted(m.latencies)
             mid == Len(sorted_latencies) \div 2
         IN  [p50 |-> IF Len(sorted_latencies) % 2 = 1
                      THEN sorted_latencies[mid + 1]
                      ELSE (sorted_latencies[mid] + sorted_latencies[mid + 1]) \div 2,
              requests |-> m.request_count,
              errors |-> m.error_count]

----------------------------------------------------------------------------
(* speak.  Its try block is closed by the handler that prints "(tts error)  *)
(* Exception during ElevenLabs request" and falls through to the fallback   *)
(* print.  The prints themselves are taken to succeed.                      *)

\* the configuration: [api_key, requests], each one present or not
TtsEnvs == [api_key : BOOLEAN, requests : BOOLEAN]
NoTts == [api_key |-> FALSE, requests |-> TRUE]

\* the file output.mp3
NoAudio == [exists |-> FALSE, content |-> ""]
AudioBytes == {"mp3-1", "mp3-2"}

\* what requests.post does: it raises, or returns a response
NoResponse == [raised |-> TRUE, status_code |-> 0, content |-> ""]
HttpOutcomes ==
    {NoResponse}
    \cup [raised : {FALSE}, status_code : {200, 201, 500}, content : AudioBytes]

Saved == "(audio saved to output.mp3)"
StatusDiagnostic(http) ==
    "(tts error) ElevenLabs API returned status " \o ToString(http.status_code)
ExceptionDiagnostic == "(tts error) Exception during ElevenLabs request"
Speaking(text) == "(speaking) " \o text

\* speak(text): [raised, console, output_mp3].  http is the outcome of the
\* request and write the outcome of writing the audio file, both consulted
\* only where the code gets to them; mp3 is output.mp3 before the call.
speakSilentOnStatus(env, text, http, write, mp3) ==
    IF env.api_key /\ env.requests
    THEN IF http.raised
         THEN [raised |-> "none", console |-> <<ExceptionDiagnostic, Speaking(text)>>,
               output_mp3 |-> mp3]
         ELSE IF http.status_code = 200
         THEN CASE write = "ok" ->
                     [raised |-> "none", console |-> <<Saved>>,
                      output_mp3 |-> [exists |-> TRUE, content |-> http.content]]
                [] write = "open_failed" ->
                     [raised |-> "none",
                      console |-> <<ExceptionDiagnostic, Speaking(text)>>,
                      output_mp3 |-> mp3]
                [] OTHER ->
                     [raised |-> "none",
                      console |-> <<ExceptionDiagnostic, Speaking(text)>>,
                      output_mp3 |-> [exists |-> TRUE, content |-> ""]]
         ELSE [raised |-> "none", console |-> <<StatusDiagnostic(http)>>,
               output_mp3 |-> mp3]
    ELSE [raised |-> "none", console |-> <<Speaking(text)>>, output_mp3 |-> mp3]
speak(env, text, http, write, mp3) ==
    IF env.api_key /\ env.requests
    THEN IF http.raised
         THEN [raised |-> "none", console |-> <<ExceptionDiagnostic, Speaking(text)>>,
               output_mp3 |-> mp3]
         ELSE IF http.status_code = 200
         THEN CASE write = "ok" ->
                     [raised |-> "none", console |-> <<Saved>>,
                      output_mp3 |-> [exists |-> TRUE, content |-> http.content]]
                [] write = "open_failed" ->
                     [raised |-> "none",
                      console |-> <<ExceptionDiagnostic, Speaking(text)>>,
                      output_mp3 |-> mp3]
                [] OTHER ->
                     \* open() has truncated the file
                     [raised |-> "none",
                      console |-> <<ExceptionDiagnostic, Speaking(text)>>,
                      output_mp3 |-> [exists |-> TRUE, content |-> ""]]
         ELSE [raised |-> "none",
               console |-> <<StatusDiagnostic(http), Speaking(text)>>,
               output_mp3 |-> mp3]
    ELSE [raised |-> "none", console |-> <<Speaking(text)>>, output_mp3 |-> mp3]

\* the record of a call: what it met, and the result r of speak
NoSpeech ==
    [called |-> FALSE, text |-> "", http |-> NoResponse, write |-> "ok",
     raised |-> "none", console |-> <<>>]
Speech(text, http, write, r) ==
    [called |-> TRUE, text |-> text, http |-> http, write |-> write,
     raised |-> r.raised, console |-> r.console]

----------------------------------------------------------------------------
(* The states a process starts in *)

SeqsUpTo(S, n) == UNION {[1..k -> S] : k \in 0..n}

StartItems ==
    {ItemOf(to_dict([text |-> "b", timestamp |-> d])) : d \in Datetimes}
    \cup {[obj |-> TRUE, hasText |-> TRUE, text |-> "a", tsKind |-> "str", ts |-> <<"0">>],
          [obj |-> TRUE, hasText |-> TRUE, text |-> "a", tsKind |-> "str", ts |-> <<"x">>],
          [obj |-> TRUE, hasText |-> TRUE, text |-> "a", tsKind |-> "absent", ts |-> <<>>],
          [obj |-> TRUE, hasText |-> FALSE, text |-> "", tsKind |-> "str",
           ts |-> <<"1", ".", "1", "Z">>],
          [obj |-> TRUE, hasText |-> TRUE, text |-> "a", tsKind |-> "num", ts |-> <<>>],
          [obj |-> FALSE, hasText |-> FALSE, text |-> "", tsKind |-> "absent", ts |-> <<>>]}

StartFiles ==
    {NoFile, Unreadable, BadJson, JsonNumber, JsonObject}
    \cup {JsonArray(items) : items \in SeqsUpTo(StartItems, MaxItems)}

\* a file written by earlier sessions: one entry more than /recall shows by
\* default, no two of them alike
HistoryFile ==
    JsonArray([i \in 1..(DefaultRecall + 1) |->
                 ItemOf(to_dict([text |-> IF 2 * i <= DefaultRecall + 1 THEN "a" ELSE "b",
                                 timestamp |-> [sec |-> i % 2, us |-> (i \div 2) % 2]]))])

\* the files a session of the store starts on
SessionFiles ==
    {NoFile, BadJson, JsonNumber, JsonArray(<<>>), HistoryFile,
     JsonArray(<<ItemOf(to_dict([text |-> "b", timestamp |-> [sec |-> 0, us |-> 0]])),
                 [obj |-> TRUE, hasText |-> TRUE, text |-> "a", tsKind |-> "str",
                  ts |-> <<"x">>]>>)}

NoOp == [name |-> "none", n |-> 0, detail |-> ""]
NoMetrics == [p50 |-> 0, requests |-> 0, errors |-> 0]
NoDisplay == ""

IdleStore ==
    /\ entries = <<>> /\ saved = "none" /\ now = 0 /\ recalled = <<>>
IdleMetrics ==
    /\ latencies = <<>> /\ request_count = 0 /\ error_count = 0
    /\ metricsOut = NoMetrics
IdleGate == attempts = 0 /\ exit_status = -1
IdleLoop == short_mode = FALSE /\ display = NoDisplay
IdleSpeaker == tts_env = NoTts /\ output_mp3 = NoAudio /\ spoke = NoSpeech

----------------------------------------------------------------------------
(* SpecStore: the methods of a store, called directly *)

InitStore ==
    /\ pc = "new"
    /\ persistent \in BOOLEAN
    /\ file \in (IF persistent THEN SessionFiles ELSE {NoFile})
    /\ raised = "none" /\ lastOp = NoOp
    /\ IdleStore /\ IdleMetrics /\ IdleGate /\ IdleLoop /\ IdleSpeaker

\* the store's part of a call of add_entry: the append, then (persistent) the save
StoreAddRollsBack(text, tsarg, outcome) ==
    /\ entries' = IF persistent /\ outcome # "ok"
                  THEN entries
                  ELSE add_entry(entries, text, tsarg, now)
    /\ IF persistent
       THEN /\ file' = _save_entries(add_entry(entries, text, tsarg, now), file, outcome)
            /\ saved' = IF outcome = "ok" THEN "ok" ELSE "failed"
       ELSE outcome = "ok" /\ UNCHANGED <<file, saved>>
StoreAdd(text, tsarg, outcome) ==
    /\ entries' = add_entry(entries, text, tsarg, now)
    /\ IF persistent
       THEN /\ file' = _save_entries(entries', file, outcome)
            /\ saved' = IF outcome = "ok" THEN "ok" ELSE "failed"
       ELSE outcome = "ok" /\ UNCHANGED <<file, saved>>

\* the store's part of a call of clear
StoreClearUnlessWriteFails(outcome) ==
    /\ entries' = IF persistent /\ outcome # "ok" THEN entries ELSE clear(entries)
    /\ IF persistent
       THEN /\ file' = _save_entries(clear(entries), file, outcome)
            /\ saved' = IF outcome = "ok" THEN "ok" ELSE "failed"
       ELSE outcome = "ok" /\ UNCHANGED <<file, saved>>
StoreClear(outcome) ==
    /\ entries' = clear(entries)
    /\ IF persistent
       THEN /\ file' = _save_entries(entries', file, outcome)
            /\ saved' = IF outcome = "ok" THEN "ok" ELSE "failed"
       ELSE outcome = "ok" /\ UNCHANGED <<file, saved>>

\* mem = MemoryManager() / PersistentMemoryManager(filepath), also a later
\* instance on the same file
Construct ==
    /\ pc \in {"new", "api"}
    /\ pc = "api" => persistent
    /\ LET r == NewStore(persistent, file, now) IN
         /\ raised' = r.raised
         /\ entries' = IF r.raised = "none" THEN r.entries ELSE <<>>
         /\ pc' = IF r.raised = "none" THEN "api" ELSE "crashed"
    /\ lastOp' = [name |-> "construct", n |-> 0, detail |-> ""]
    /\ recalled' = <<>>
    /\ UNCHANGED <<speakVars, persistent, file, saved, now, metricsVars, gateVars,
                   short_mode, display>>

AddEntry ==
    /\ pc = "api"
    /\ Len(entries) < MaxEntries
    /\ \E text \in Texts, tsarg \in TimestampArgs, outcome \in SaveOutcomes :
          StoreAdd(text, tsarg, outcome)
    /\ lastOp' = [name |-> "add_entry", n |-> 0, detail |-> ""]
    /\ recalled' = <<>>
    /\ UNCHANGED <<speakVars, pc, persistent, raised, now, metricsVars, gateVars,
                   short_mode, display>>

Clear ==
    /\ pc = "api"
    /\ \E outcome \in SaveOutcomes : StoreClear(outcome)
    /\ lastOp' = [name |-> "clear", n |-> 0, detail |-> ""]
    /\ recalled' = <<>>
    /\ UNCHANGED <<speakVars, pc, persistent, raised, now, metricsVars, gateVars,
                   short_mode, display>>

RecallArgs == (0 - 1)..(MaxEntries + 1)

Recall ==
    /\ pc = "api"
    /\ \E n \in RecallArgs :
          /\ recalled' = recall(entries, n)
          /\ lastOp' = [name |-> "recall", n |-> n, detail |-> ""]
    /\ UNCHANGED <<speakVars, pc, persistent, raised, entries, file, saved, now, metricsVars,
                   gateVars, short_mode, display>>

\* time passes
Tick ==
    /\ pc \in {"api", "running"}
    /\ now < MaxClock
    /\ now' = now + 1
    /\ UNCHANGED <<speakVars, pc, persistent, raised, entries, file, saved, recalled, lastOp,
                   metricsVars, gateVars, short_mode, display>>

NextStore == Construct \/ AddEntry \/ Clear \/ Recall \/ Tick

SpecStore == InitStore /\ [][NextStore]_vars

----------------------------------------------------------------------------
(* SpecLoad: a PersistentMemoryManager constructed on any file *)

InitLoad ==
    /\ pc = "new"
    /\ persistent = TRUE
    /\ file \in StartFiles
    /\ raised = "none" /\ lastOp = NoOp
    /\ IdleStore /\ IdleMetrics /\ IdleGate /\ IdleLoop /\ IdleSpeaker

NextLoad == Construct \/ Tick

SpecLoad == InitLoad /\ [][NextLoad]_vars

----------------------------------------------------------------------------
(* The store's claims *)

\* C1: recall(n) with n <= 0 returns an empty sequence, whatever the store holds.
C1_RecallNonPositiveIsEmpty ==
    (lastOp.name = "recall" /\ lastOp.n <= 0) => recalled = <<>>

\* C2: recall(n) with n >= 1 returns exactly min(n, total) entries, the most
\* recently added ones, newest first.
C2_RecallNewestFirst ==
    (lastOp.name = "recall" /\ lastOp.n >= 1) =>
        LET total == Len(entries)
            k == Min(lastOp.n, total)
        IN  /\ Len(recalled) = k
            /\ \A i \in 1..k : recalled[i] = to_dict(entries[total + 1 - i])

C2_Witness ==
    /\ lastOp.name = "recall" /\ lastOp.n = 1
    /\ Len(entries) = 2 /\ entries[1] # entries[2]
    /\ recalled = <<to_dict(entries[2])>>

\* a file that _load_entries cannot turn into entries
WrongStructure(f) ==
    /\ f.kind = "json"
    /\ \/ f.top # "array"
       \/ \E i \in 1..Len(f.items) : ~f.items[i].obj \/ f.items[i].tsKind = "num"
LoadFailure(f) == f.kind \in {"missing", "unreadable", "badjson"} \/ WrongStructure(f)

\* C3: constructing a PersistentMemoryManager never fails, and on a missing,
\* unreadable, malformed or wrongly structured file the store starts empty.
C3_ConstructNeverFails ==
    lastOp.name = "construct" =>
        /\ raised = "none"
        /\ LoadFailure(file) => entries = <<>>

\* C6: after an add_entry or clear whose write succeeded, the file holds the
\* serialization of the whole in-memory sequence, oldest first, and nothing else.
C6_FileMirrorsEntries ==
    (persistent /\ lastOp.name \in {"add_entry", "clear"} /\ saved = "ok") =>
        /\ file.kind = "json" /\ file.top = "array"
        /\ Len(file.items) = Len(entries)
        /\ \A i \in 1..Len(entries) :
              /\ file.items[i].obj /\ file.items[i].hasText
              /\ file.items[i].text = entries[i].text
              /\ file.items[i].tsKind = "str"
              /\ file.items[i].ts = Append(isoformat(entries[i].timestamp), "Z")

C6_Witness ==
    /\ persistent /\ lastOp.name = "add_entry" /\ saved = "ok"
    /\ Len(entries) = 2 /\ entries[1] # entries[2]

\* C7: a new instance constructed on the file of a store whose last write
\* succeeded holds the same entries: same length, order, texts and timestamps.
C7_RoundTrip ==
    [][(pc = "api" /\ saved = "ok" /\ Construct) =>
           (raised' = "none" /\ entries' = entries)]_vars

C7_Witness ==
    /\ lastOp.name = "construct" /\ saved = "ok" /\ raised = "none"
    /\ Len(entries) = 2
    /\ entries[1].text # entries[2].text
    /\ entries[1].timestamp.us = 0 /\ entries[2].timestamp.us # 0

\* C11: after clear() the store is empty, and a recall(n) that follows it
\* returns the empty sequence for every integer n, in the in-memory store and
\* in the persistent one alike.
C11_ClearThenRecallEmpty ==
    /\ [](lastOp.name = "clear" => entries = <<>>)
    /\ [][(lastOp.name = "clear" /\ Recall) => recalled' = <<>>]_vars

\* a recall(1) on a persistent store whose clear() could not rewrite the file:
\* the file still holds entries, the store holds none
C11_Witness ==
    /\ persistent /\ lastOp.name = "recall" /\ lastOp.n = 1
    /\ saved = "failed" /\ file.kind = "json" /\ Len(file.items) > 0
    /\ entries = <<>> /\ recalled = <<>>

\* C14: an add_entry or clear of the persistent store whose file write fails
\* returns normally and leaves the in-memory sequence exactly as a successful
\* write would: the old entries plus the new one, or none.  A later recall
\* reads that sequence only.
C14_WriteFailureKeepsMemory ==
    [][(pc = "api" /\ persistent /\ saved' = "failed" /\ now' = now) =>
          /\ lastOp'.name = "add_entry" =>
                /\ raised' = "none" /\ pc' = "api"
                /\ \E text \in Texts, tsarg \in TimestampArgs :
                      entries' = add_entry(entries, text, tsarg, now)
          /\ lastOp'.name = "clear" =>
                (raised' = "none" /\ pc' = "api" /\ entries' = <<>>)
          /\ lastOp'.name = "recall" => recalled' = recall(entries, lastOp'.n)]_vars

\* both entries recalled although the second add_entry could not write the file
C14_Witness ==
    /\ persistent /\ saved = "failed" /\ raised = "none"
    /\ lastOp.name = "recall" /\ lastOp.n = 2
    /\ Len(entries) = 2 /\ file = Dump(<<entries[1]>>)
    /\ recalled = <<to_dict(entries[2]), to_dict(entries[1])>>

\* C18: a constructed store changes its sequence in two ways only: add_entry
\* leaves the old sequence in place and puts exactly one new entry at its end,
\* clear leaves the empty sequence.  recall changes nothing; no entry is
\* edited, removed on its own or moved.
C18_AppendOrClearOnly ==
    [][(pc = "api" /\ now' = now) =>
          /\ lastOp'.name = "add_entry" =>
                /\ Len(entries') = Len(entries) + 1
                /\ SubSeq(entries', 1, Len(entries)) = entries
                /\ entries'[Len(entries')].text \in Texts
          /\ lastOp'.name = "clear" => entries' = <<>>
          /\ lastOp'.name = "recall" => entries' = entries
          /\ lastOp'.name # "construct" =>
                \/ entries' = entries
                \/ entries' = <<>>
                \/ SubSeq(entries', 1, Len(entries') - 1) = entries]_vars

C18_Witness ==
    /\ ~persistent /\ lastOp.name = "add_entry"
    /\ Len(entries) = 2 /\ entries[1].text # entries[2].text

----------------------------------------------------------------------------
(* SpecMetrics: the methods of a MetricsTracker, called directly *)

Latencies == {0, 2, 4}

Tracker ==
    [latencies |-> latencies, request_count |-> request_count,
     error_count |-> error_count]
SetTracker(m) ==
    /\ latencies' = m.latencies
    /\ request_count' = m.request_count
    /\ error_count' = m.error_count

InitMetrics ==
    /\ pc = "metrics"
    /\ persistent = FALSE /\ file = NoFile
    /\ raised = "none" /\ lastOp = NoOp
    /\ IdleStore /\ IdleMetrics /\ IdleGate /\ IdleLoop /\ IdleSpeaker

RecordResponse ==
    /\ pc = "metrics"
    /\ Len(latencies) < MaxSamples
    /\ \E latency \in Latencies, error \in BOOLEAN :
          /\ SetTracker(record_response(Tracker, latency, error))
          /\ lastOp' = [name |-> "record_response", n |-> latency,
                        detail |-> IF error THEN "error" ELSE ""]
    /\ metricsOut' = NoMetrics
    /\ UNCHANGED <<speakVars, pc, persistent, raised, storeVars, gateVars, short_mode, display>>

GetMetrics ==
    /\ pc = "metrics"
    /\ metricsOut' = get_metrics(Tracker)
    /\ lastOp' = [name |-> "get_metrics", n |-> 0, detail |-> ""]
    /\ UNCHANGED <<speakVars, pc, persistent, raised, storeVars, gateVars, short_mode, display,
                   latencies, request_count, error_count>>

NextMetrics == RecordResponse \/ GetMetrics

SpecMetrics == InitMetrics /\ [][NextMetrics]_vars

----------------------------------------------------------------------------
(* The tracker's claims *)

IsPrefix(s, t) == Len(s) <= Len(t) /\ \A i \in 1..Len(s) : s[i] = t[i]

\* C8: error_count <= request_count and the number of stored latencies equals
\* request_count in every state, and no step decreases request_count,
\* error_count or the latency sequence.
C8_CountersConsistent ==
    /\ [](error_count <= request_count /\ Len(latencies) = request_count)
    /\ [][/\ request_count' >= request_count
          /\ error_count' >= error_count
          /\ IsPrefix(latencies, latencies')]_vars

C8_Witness ==
    /\ lastOp.name = "record_response"
    /\ request_count = 3 /\ error_count = 2 /\ Len(latencies) = 3

\* the median of the values of l, stated without sorting: m is the middle
\* value (odd count) or the mean of the two middle values (even count)
Below(l, x) == Cardinality({i \in 1..Len(l) : l[i] < x})
Above(l, x) == Cardinality({i \in 1..Len(l) : l[i] > x})
IsMedian(l, m) ==
    LET n == Len(l)
        h == n \div 2
    IN  IF n % 2 = 1
        THEN \E i \in 1..n : l[i] = m /\ Below(l, m) <= h /\ Above(l, m) <= h
        ELSE \E i, j \in 1..n :
                /\ i # j /\ l[i] <= l[j]
                /\ Below(l, l[i]) <= h - 1 /\ Above(l, l[i]) <= h
                /\ Below(l, l[j]) <= h /\ Above(l, l[j]) <= h - 1
                /\ 2 * m = l[i] + l[j]

\* C9: get_metrics returns p50 = 0, requests = 0, errors = 0 when no sample was
\* recorded; otherwise p50 is the median of the recorded latencies, in whatever
\* order they were recorded, and requests and errors are the counters.
C9_Median ==
    lastOp.name = "get_metrics" =>
        IF latencies = <<>>
        THEN metricsOut = [p50 |-> 0, requests |-> 0, errors |-> 0]
        ELSE /\ IsMedian(latencies, metricsOut.p50)
             /\ metricsOut.requests = request_count
             /\ metricsOut.errors = error_count

C9_Witness ==
    /\ lastOp.name = "get_metrics"
    /\ latencies = <<4, 0, 2, 4>>
    /\ metricsOut.p50 = 3

----------------------------------------------------------------------------
(* SpecSpeak: speak called directly, in any configuration *)

SpeakTexts == {"hello", "bye"}

InitSpeak ==
    /\ pc = "speak"
    /\ persistent = FALSE /\ file = NoFile
    /\ raised = "none" /\ lastOp = NoOp
    /\ IdleStore /\ IdleMetrics /\ IdleGate /\ IdleLoop
    /\ tts_env \in TtsEnvs /\ output_mp3 = NoAudio /\ spoke = NoSpeech

Speak ==
    /\ pc = "speak"
    /\ \E text \in SpeakTexts, http \in HttpOutcomes, write \in SaveOutcomes :
          LET r == speak(tts_env, text, http, write, output_mp3) IN
            /\ spoke' = Speech(text, http, write, r)
            /\ output_mp3' = r.output_mp3
            /\ raised' = r.raised
    /\ lastOp' = [name |-> "speak", n |-> 0, detail |-> ""]
    /\ UNCHANGED <<tts_env, pc, persistent, storeVars, metricsVars, gateVars,
                   short_mode, display>>

NextSpeak == Speak

SpecSpeak == InitSpeak /\ [][NextSpeak]_vars

\* the call had the key and the library, and the request was answered with 200
Answered200 ==
    /\ spoke.called /\ tts_env.api_key /\ tts_env.requests
    /\ ~spoke.http.raised /\ spoke.http.status_code = 200

----------------------------------------------------------------------------
(* Spec: a session of run_cli (persistent = FALSE) or run_cli_persistent   *)
(* (persistent = TRUE).  PROTOTYPE_PASSWORD and ELEVENLABS_API_KEY are not *)
(* set.  The session's clock is not advanced: no step of the loop reads a  *)
(* timestamp back.                                                         *)

Expected == "2ndMind"
Passwords == {"2ndMind", "letmein", ""}

\* require_password, one pass of its loop: the state after the prompt that
\* follows n failed attempts is answered with `entered`
require_passwordFallsThrough(n, entered) ==
    IF entered = Expected \/ n + 1 = MaxAttempts
    THEN [pc |-> "start", attempts |-> 0, exit_status |-> 0 - 1, raised |-> "none"]
    ELSE [pc |-> "auth", attempts |-> n + 1, exit_status |-> 0 - 1, raised |-> "none"]
require_password(n, entered) ==
    IF entered = Expected
    THEN [pc |-> "start", attempts |-> 0, exit_status |-> 0 - 1, raised |-> "none"]
    ELSE IF n + 1 = MaxAttempts
    THEN [pc |-> "exited", attempts |-> n + 1, exit_status |-> 1,
          raised |-> "SystemExit"]
    ELSE [pc |-> "auth", attempts |-> n + 1, exit_status |-> 0 - 1, raised |-> "none"]

\* generate_response
generate_response(prompt) == "[Stub response to '" \o prompt \o "']"

\* the short-mode cut of a response
ShortenAtLimit(response, short) ==
    IF short /\ Len(response) >= max_len
    THEN SubSeq(response, 1, max_len) \o "..."
    ELSE response
Shorten(response, short) ==
    IF short /\ Len(response) > max_len
    THEN SubSeq(response, 1, max_len) \o "..."
    ELSE response

ErrorMessage == "[Error generating response]"

\* int(s): [ok, value]; ok = FALSE is ValueError
IntRange == (0 - 9)..9
int(tok) ==
    IF \E k \in IntRange : ToString(k) = tok
    THEN [ok |-> TRUE, value |-> CHOOSE k \in IntRange : ToString(k) = tok]
    ELSE [ok |-> FALSE, value |-> 0]

\* A line read by input("User> "): the text, and user_input.strip().split()
Line(raw, tokens) == [raw |-> raw, tokens |-> tokens]
Lines ==
    {Line("", <<>>), Line("  ", <<>>),
     Line("/exit", <<"/exit">>), Line("/clear", <<"/clear">>),
     Line("/recall", <<"/recall">>), Line("/recall 1", <<"/recall", "1">>),
     Line("/recall 0", <<"/recall", "0">>), Line("/recall -1", <<"/recall", "-1">>),
     Line("/recall abc", <<"/recall", "abc">>),
     Line("/short", <<"/short">>), Line("/metrics", <<"/metrics">>),
     \* two turns: the response to the first has max_len characters, and the
     \* second is itself longer than max_len
     Line("tell me about the weather in the spring",
          <<"tell", "me", "about", "the", "weather", "in", "the", "spring">>),
     Line("tell me about the weather in the morning and in the evening too",
          <<"tell", "me", "about", "the", "weather", "in", "the", "morning",
            "and", "in", "the", "evening", "too">>)}

Commands == {"/exit", "/clear", "/recall", "/short", "/metrics"}

\* the lines whose first token is `command`
LinesOf(command) ==
    {l \in Lines : l.raw # "" /\ l.tokens # <<>> /\ Head(l.tokens) = command}
TurnLines ==
    {l \in Lines : l.raw # "" /\ l.tokens # <<>> /\ Head(l.tokens) \notin Commands}

\* the step of a turn's try block that raises, if any
FailSteps == {"none", "add_entry", "generate_response", "record_response",
              "speak", "print"}
SessionLatencies == {0, 2}

Init ==
    /\ pc = "auth"
    /\ persistent \in BOOLEAN
    /\ file \in (IF persistent THEN SessionFiles ELSE {NoFile})
    /\ raised = "none" /\ lastOp = NoOp
    /\ IdleStore /\ IdleMetrics /\ IdleGate /\ IdleLoop /\ IdleSpeaker

\* what the line just processed printed
Printed(entriesShown, metricsShown, response, speech) ==
    /\ recalled' = entriesShown
    /\ metricsOut' = metricsShown
    /\ display' = response
    /\ spoke' = speech

\* require_password: one prompt
Authenticate ==
    /\ pc = "auth"
    /\ \E entered \in Passwords :
          LET r == require_password(attempts, entered) IN
            /\ pc' = r.pc
            /\ attempts' = r.attempts
            /\ exit_status' = r.exit_status
            /\ raised' = r.raised
            /\ lastOp' = [name |-> "password", n |-> attempts + 1, detail |-> entered]
    /\ UNCHANGED <<speakVars, persistent, storeVars, metricsVars, short_mode, display>>

\* mem = ...; metrics = MetricsTracker(); short_mode = False
StartSession ==
    /\ pc = "start"
    /\ LET r == NewStore(persistent, file, now) IN
         /\ raised' = r.raised
         /\ entries' = IF r.raised = "none" THEN r.entries ELSE <<>>
         /\ pc' = IF r.raised = "none" THEN "running" ELSE "crashed"
         /\ exit_status' = IF r.raised = "none" THEN exit_status ELSE 1
    /\ SetTracker(NewTracker)
    /\ short_mode' = FALSE
    /\ lastOp' = [name |-> "start", n |-> 0, detail |-> ""]
    /\ Printed(<<>>, NoMetrics, NoDisplay, NoSpeech)
    /\ UNCHANGED <<speakEnv, persistent, attempts, file, saved, now>>

\* if not user_input: continue
EmptyLine ==
    /\ pc = "running"
    /\ \E line \in Lines : line.raw = ""
    /\ lastOp' = [name |-> "empty", n |-> 0, detail |-> ""]
    /\ Printed(<<>>, NoMetrics, NoDisplay, NoSpeech)
    /\ UNCHANGED <<speakEnv, pc, persistent, raised, gateVars, entries, file, saved, now,
                   latencies, request_count, error_count, short_mode>>

\* command, *args = user_input.strip().split() on a line of white space only:
\* the unpacking raises ValueError, which nothing catches
BlankLine ==
    /\ pc = "running"
    /\ \E line \in Lines : line.raw # "" /\ line.tokens = <<>>
    /\ pc' = "crashed"
    /\ raised' = "ValueError"
    /\ exit_status' = 1
    /\ lastOp' = [name |-> "blank", n |-> 0, detail |-> ""]
    /\ Printed(<<>>, NoMetrics, NoDisplay, NoSpeech)
    /\ UNCHANGED <<speakEnv, persistent, attempts, entries, file, saved, now,
                   latencies, request_count, error_count, short_mode>>

CmdExit ==
    /\ pc = "running"
    /\ LinesOf("/exit") # {}
    /\ pc' = "exited"
    /\ exit_status' = 0
    /\ lastOp' = [name |-> "/exit", n |-> 0, detail |-> ""]
    /\ Printed(<<>>, NoMetrics, NoDisplay, NoSpeech)
    /\ UNCHANGED <<speakEnv, persistent, raised, attempts, entries, file, saved, now,
                   latencies, request_count, error_count, short_mode>>

CmdClearResetsMetrics ==
    /\ pc = "running"
    /\ LinesOf("/clear") # {}
    /\ \E outcome \in SaveOutcomes : StoreClear(outcome)
    /\ SetTracker(NewTracker)
    /\ lastOp' = [name |-> "/clear", n |-> 0, detail |-> ""]
    /\ Printed(<<>>, NoMetrics, NoDisplay, NoSpeech)
    /\ UNCHANGED <<speakEnv, pc, persistent, raised, gateVars, now, short_mode>>
CmdClear ==
    /\ pc = "running"
    /\ LinesOf("/clear") # {}
    /\ \E outcome \in SaveOutcomes : StoreClear(outcome)
    /\ lastOp' = [name |-> "/clear", n |-> 0, detail |-> ""]
    /\ Printed(<<>>, NoMetrics, NoDisplay, NoSpeech)
    /\ UNCHANGED <<speakEnv, pc, persistent, raised, gateVars, now,
                   latencies, request_count, error_count, short_mode>>

\* /recall: count = int(args[0]) if args else 5; a ValueError prints the
\* warning and gives 5 as well.  [count, warned]
RecallCountOneOnError(args) ==
    IF args = <<>> THEN [count |-> DefaultRecall, warned |-> FALSE]
    ELSE IF int(args[1]).ok THEN [count |-> int(args[1]).value, warned |-> FALSE]
    ELSE [count |-> 1, warned |-> TRUE]
RecallCount(args) ==
    IF args = <<>> THEN [count |-> DefaultRecall, warned |-> FALSE]
    ELSE IF int(args[1]).ok THEN [count |-> int(args[1]).value, warned |-> FALSE]
    ELSE [count |-> DefaultRecall, warned |-> TRUE]

\* what the /recall branch does with one line
CmdRecallLine(line) ==
    LET r == RecallCount(Tail(line.tokens))
    IN  /\ Printed(recall(entries, r.count), NoMetrics, NoDisplay, NoSpeech)
        /\ lastOp' = [name |-> "/recall", n |-> r.count,
                      detail |-> IF r.warned THEN "warned" ELSE ""]

CmdRecall ==
    /\ pc = "running"
    /\ \E line \in LinesOf("/recall") : CmdRecallLine(line)
    /\ UNCHANGED <<speakEnv, pc, persistent, raised, gateVars, entries, file, saved, now,
                   latencies, request_count, error_count, short_mode>>

CmdShortSwitchesOn ==
    /\ pc = "running"
    /\ LinesOf("/short") # {}
    /\ short_mode' = TRUE
    /\ lastOp' = [name |-> "/short", n |-> 0, detail |-> ""]
    /\ Printed(<<>>, NoMetrics, NoDisplay, NoSpeech)
    /\ UNCHANGED <<speakEnv, pc, persistent, raised, gateVars, entries, file, saved, now,
                   latencies, request_count, error_count>>
CmdShort ==
    /\ pc = "running"
    /\ LinesOf("/short") # {}
    /\ short_mode' = ~short_mode
    /\ lastOp' = [name |-> "/short", n |-> 0, detail |-> ""]
    /\ Printed(<<>>, NoMetrics, NoDisplay, NoSpeech)
    /\ UNCHANGED <<speakEnv, pc, persistent, raised, gateVars, entries, file, saved, now,
                   latencies, request_count, error_count>>

CmdMetrics ==
    /\ pc = "running"
    /\ LinesOf("/metrics") # {}
    /\ lastOp' = [name |-> "/metrics", n |-> 0, detail |-> ""]
    /\ Printed(<<>>, get_metrics(Tracker), NoDisplay, NoSpeech)
    /\ UNCHANGED <<speakEnv, pc, persistent, raised, gateVars, entries, file, saved, now,
                   latencies, request_count, error_count, short_mode>>

\* the tracker after a turn whose try block raised at step `fail` (or not at
\* all): the sample of the try block, then the sample of the except clause
TurnMetrics(m, fail, latency, later) ==
    LET tried == IF fail \in {"none", "speak", "print"}
                 THEN record_response(m, latency, FALSE) ELSE m
    IN  IF fail # "none" THEN record_response(tried, later, TRUE) ELSE tried

\* any other line: a conversational turn.  speak is called once the turn has
\* got to it, and its result counts unless speak is the step that raises.
Turn ==
    /\ pc = "running"
    /\ request_count < MaxTurns
    /\ Len(entries) < MaxEntries
    /\ \E line \in TurnLines, fail \in FailSteps, outcome \in SaveOutcomes,
          latency \in SessionLatencies, later \in SessionLatencies :
          LET response == Shorten(generate_response(line.raw), short_mode)
              said == speak(tts_env, response, NoResponse, "ok", output_mp3)
              spoken == fail \in {"none", "print"}
          IN  /\ later >= latency
              /\ IF fail = "add_entry"
                 THEN outcome = "ok" /\ UNCHANGED <<entries, file, saved>>
                 ELSE StoreAdd(line.raw, NoTimestamp, outcome)
              /\ SetTracker(TurnMetrics(Tracker, fail, latency, later))
              /\ output_mp3' = IF spoken THEN said.output_mp3 ELSE output_mp3
              /\ Printed(<<>>, NoMetrics,
                         IF fail = "none" THEN response ELSE ErrorMessage,
                         IF spoken THEN Speech(response, NoResponse, "ok", said)
                         ELSE NoSpeech)
              /\ lastOp' = [name |-> "turn", n |-> 0, detail |-> fail]
    /\ UNCHANGED <<tts_env, pc, persistent, raised, gateVars, now, short_mode>>

Next ==
    \/ Authenticate \/ StartSession
    \/ EmptyLine \/ BlankLine
    \/ CmdExit \/ CmdClear \/ CmdRecall \/ CmdShort \/ CmdMetrics
    \/ Turn

Spec == Init /\ [][Next]_vars

----------------------------------------------------------------------------
(* run_cli taken by itself, as a function of the conversation and the line  *)
(* read: the loop of the in-memory session, which run_cli_persistent        *)
(* repeats around a PersistentMemoryManager.  A conversation is             *)
(* [pc, raised, entries, tracker, short_mode].                              *)

Conversation ==
    [pc |-> pc, raised |-> raised, entries |-> entries, tracker |-> Tracker,
     short_mode |-> short_mode]

\* mem = MemoryManager(); metrics = MetricsTracker(); short_mode = False
run_cli_start ==
    [pc |-> "running", raised |-> "none", entries |-> <<>>, tracker |-> NewTracker,
     short_mode |-> FALSE]

\* the branch of the loop a line takes
LineKind(line) ==
    IF line.raw = "" THEN "empty"
    ELSE IF line.tokens = <<>> THEN "blank"
    ELSE IF Head(line.tokens) \in Commands THEN Head(line.tokens)
    ELSE "turn"

\* one pass of the loop of run_cli
run_cli_step(c, line, fail, latency, later, clock) ==
    CASE LineKind(line) = "empty" -> c
      [] LineKind(line) = "blank" -> [c EXCEPT !.pc = "crashed", !.raised = "ValueError"]
      [] LineKind(line) = "/exit" -> [c EXCEPT !.pc = "exited"]
      [] LineKind(line) = "/clear" -> [c EXCEPT !.entries = clear(c.entries)]
      [] LineKind(line) = "/short" -> [c EXCEPT !.short_mode = ~c.short_mode]
      [] LineKind(line) \in {"/recall", "/metrics"} -> c
      [] OTHER ->
            [c EXCEPT !.entries = IF fail = "add_entry" THEN c.entries
                                  ELSE add_entry(c.entries, line.raw, NoTimestamp, clock),
                      !.tracker = TurnMetrics(c.tracker, fail, latency, later)]

----------------------------------------------------------------------------
(* The session's claims *)

\* C4: a session that is RUNNING leaves RUNNING only by processing /exit: no
\* other line and no error ends the loop.
C4_OnlyExitEndsLoop ==
    [][(pc = "running" /\ pc' # "running") =>
           (lastOp'.name = "/exit" /\ pc' = "exited" /\ raised' = "none")]_vars

\* C5: in a turn, an exception raised at any step of the try block is caught,
\* recorded in the tracker as one more sample with error = true, and the loop
\* goes on to read the next line.
C5_TurnErrorRecorded ==
    [][(pc = "running" /\ lastOp'.name = "turn" /\ lastOp'.detail # "none") =>
           /\ pc' = "running" /\ raised' = "none"
           /\ error_count' = error_count + 1
           /\ Len(latencies') >= Len(latencies) + 1
           /\ request_count' >= request_count + 1
           /\ display' = ErrorMessage]_vars

C5_Witness ==
    /\ pc = "running" /\ lastOp.name = "turn" /\ lastOp.detail = "generate_response"
    /\ error_count = 1 /\ request_count = 1 /\ display = ErrorMessage

\* C10: the password gate prompts at most 3 times; it returns normally at the
\* first attempt that matches, without prompting again; after 3 attempts that
\* do not match the process ends with exit status 1; and no input line is
\* processed unless the gate has returned normally.
C10_PasswordGate ==
    /\ [](attempts < MaxAttempts \/ (pc = "exited" /\ exit_status = 1))
    /\ [][pc = "auth" =>
            /\ lastOp'.name = "password"
            /\ lastOp'.n = attempts + 1 /\ lastOp'.n <= MaxAttempts
            /\ UNCHANGED <<entries, file, latencies, request_count, error_count,
                           short_mode>>
            /\ IF lastOp'.detail = Expected
               THEN pc' = "start" /\ exit_status' = 0 - 1 /\ raised' = "none"
               ELSE IF lastOp'.n = MaxAttempts
               THEN pc' = "exited" /\ exit_status' = 1
               ELSE pc' = "auth" /\ attempts' = attempts + 1]_vars
    /\ [][/\ (pc' = "start" => pc \in {"auth", "start"})
          /\ (pc' = "running" => pc \in {"start", "running"})
          /\ (pc # "running" => lastOp'.name \in {"password", "start"})]_vars

C10_Witness ==
    /\ pc = "exited" /\ exit_status = 1
    /\ lastOp.name = "password" /\ lastOp.n = MaxAttempts /\ lastOp.detail # Expected

\* C12: with short mode on, a response of more than 60 characters is displayed
\* as its first 60 characters and the ellipsis, a response of at most 60
\* characters as it is; with short mode off every response is displayed as it
\* is.  In each case the entry the turn appends holds the whole input line.
C12_ShortModeCut ==
    [][(pc = "running" /\ lastOp'.name = "turn" /\ lastOp'.detail = "none") =>
          LET raw == entries'[Len(entries')].text
              response == generate_response(raw)
          IN  /\ Len(entries') = Len(entries) + 1
              /\ raw \in {l.raw : l \in TurnLines}
              /\ display' = IF short_mode /\ Len(response) > max_len
                            THEN SubSeq(response, 1, max_len) \o "..."
                            ELSE response
              /\ (short_mode /\ Len(response) > max_len) =>
                     (Len(display') = max_len + Len("...") /\ Len(raw) > max_len)
              /\ short_mode' = short_mode]_vars

\* short mode on: the line of 63 characters is stored whole, its response cut;
\* an earlier response of exactly 60 characters needed no cut
C12_Witness ==
    /\ short_mode /\ lastOp.name = "turn" /\ lastOp.detail = "none"
    /\ Len(entries) = 2
    /\ Len(generate_response(entries[1].text)) = max_len
    /\ Len(entries[2].text) > max_len
    /\ display = SubSeq(generate_response(entries[2].text), 1, max_len) \o "..."

\* a token that is not the decimal text of an integer
NotANumber(tok) == \A k \in IntRange : ToString(k) # tok

\* C13: /recall with an argument that is no integer prints the warning and
\* shows what /recall 5 shows, the 5 newest entries, newest first; /recall
\* without an argument shows the same, without the warning; neither ends the
\* loop.
C13_RecallDefault ==
    [][\A line \in LinesOf("/recall") :
          (/\ pc = "running" /\ lastOp'.name = "/recall"
           /\ (Len(line.tokens) = 1 \/ NotANumber(line.tokens[2]))
           /\ CmdRecallLine(line)) =>
              LET total == Len(entries)
                  k == Min(DefaultRecall, total)
              IN  /\ recalled' = recall(entries, DefaultRecall)
                  /\ Len(recalled') = k
                  /\ \A i \in 1..k : recalled'[i] = to_dict(entries[total + 1 - i])
                  /\ (lastOp'.detail = "warned") <=> (Len(line.tokens) > 1)
                  /\ pc' = "running" /\ raised' = "none"]_vars

\* the warning, and 5 of the 6 entries shown
C13_Witness ==
    /\ pc = "running" /\ lastOp.name = "/recall" /\ lastOp.detail = "warned"
    /\ Len(entries) = DefaultRecall + 1 /\ Len(recalled) = DefaultRecall
    /\ recalled[1] = to_dict(entries[DefaultRecall + 1])
    /\ recalled[DefaultRecall] = to_dict(entries[2])

\* C16: /clear empties the memory store and leaves the tracker (latencies,
\* request_count, error_count) and the short-mode flag as they were.
C16_ClearLeavesMetrics ==
    [][(pc = "running" /\ lastOp'.name = "/clear" /\ CmdClear) =>
          /\ entries' = <<>>
          /\ UNCHANGED <<latencies, request_count, error_count, short_mode>>
          /\ pc' = "running"]_vars

C16_Witness ==
    /\ lastOp.name = "/clear" /\ entries = <<>>
    /\ request_count = 2 /\ error_count = 1 /\ Len(latencies) = 2 /\ short_mode

\* C19: each turn adds exactly one sample to the tracker, as a non-error or as
\* an error, never as both, also when speak or print raises after
\* record_response; no other line adds a sample.  So request_count is the
\* number of turns processed.
C19_OneSamplePerTurn ==
    [][pc = "running" =>
          IF lastOp'.name = "turn"
          THEN /\ request_count' = request_count + 1
               /\ Len(latencies') = Len(latencies) + 1
               /\ error_count' = IF lastOp'.detail = "none"
                                 THEN error_count ELSE error_count + 1
          ELSE UNCHANGED <<latencies, request_count, error_count>>]_vars

\* C20: a line that is no turn leaves the conversation alone.  The empty line
\* changes nothing; /recall and /metrics change neither the memory, the tracker
\* nor the short-mode flag; /short inverts the flag and changes nothing else,
\* and nothing else changes the flag, which is off when the loop starts (so it
\* is on exactly after an odd number of /short lines); only a turn adds an
\* entry or a sample.
C20_NonTurnLines ==
    /\ []((pc = "running" /\ lastOp.name = "start") => ~short_mode)
    /\ [][pc = "running" =>
            /\ lastOp'.name = "empty" =>
                  UNCHANGED <<pc, raised, entries, file, saved, latencies,
                              request_count, error_count, short_mode>>
            /\ lastOp'.name \in {"/recall", "/metrics"} =>
                  UNCHANGED <<pc, entries, file, saved, latencies, request_count,
                              error_count, short_mode>>
            /\ lastOp'.name = "/short" =>
                  /\ short_mode' = ~short_mode
                  /\ UNCHANGED <<pc, entries, file, saved, latencies,
                                 request_count, error_count>>
            /\ lastOp'.name # "/short" => short_mode' = short_mode
            /\ (\/ Len(entries') > Len(entries)
                \/ Len(latencies') > Len(latencies)
                \/ request_count' # request_count
                \/ error_count' # error_count) => lastOp'.name = "turn"]_vars

\* the flag is off again after a second /short, the turns before it untouched
C20_Witness ==
    /\ pc = "running" /\ lastOp.name = "/short" /\ ~short_mode
    /\ Len(entries) = 2 /\ request_count = 2

\* a backing file that is missing or empty (no bytes, or an empty array)
Fresh(f) == f \in {NoFile, BadJson, JsonArray(<<>>)}

\* C17: run_cli_persistent behaves like run_cli.  Started on a missing or
\* empty file it begins with the conversation run_cli begins with, and every
\* line takes both from the same conversation to the same conversation: the
\* same entries in the same order, the same tracker, the same short-mode flag,
\* the same termination.  Only the persistent session writes the file.
C17_PersistentLikeInMemory ==
    /\ [][(pc = "start" /\ (persistent => Fresh(file))) =>
              Conversation' = run_cli_start]_vars
    /\ [][pc = "running" =>
            \E line \in Lines :
               /\ LineKind(line) = lastOp'.name
               /\ IF lastOp'.name = "turn"
                  THEN \E latency \in SessionLatencies, later \in SessionLatencies :
                          Conversation' = run_cli_step(Conversation, line,
                                              lastOp'.detail, latency, later, now)
                  ELSE Conversation' = run_cli_step(Conversation, line,
                                              "none", 0, 0, now)]_vars
    /\ [][~persistent => UNCHANGED <<file, saved>>]_vars

\* a persistent session started without a file, none of whose writes got
\* through, after a clear and two turns
C17_Witness ==
    /\ persistent /\ pc = "exited" /\ file = NoFile /\ saved = "failed"
    /\ Len(entries) = 1 /\ request_count = 2 /\ error_count = 0

====
